---- MODULE Spec2Model ----
(***************************************************************************)
(* The chess game reducer (chessReducer) of chess-ai-ui, together with the *)
(* part of the chess.js rules engine that the reducer drives: move({from,  *)
(* to, promotion}), undo(), turn(), board(), isCheck(), isCheckmate(),     *)
(* isDraw(), isInsufficientMaterial() and isThreefoldRepetition().         *)
(*                                                                         *)
(* Conventions.  A square is <<file, rank>> with file 1..8 for a..h and    *)
(* rank 1..8, so that the code's move.from[1] (the rank character) is      *)
(* sq[2] and `h${rank}` is <<8, rank>>.  An optional JavaScript value      *)
(* (number | undefined, string | undefined) is a sequence of length at     *)
(* most one: <<>> is undefined and <<v>> is the value v.  A Record<string, *)
(* string> is a function whose DOMAIN is the set of keys present, so       *)
(* `delete` shrinks the domain and a key can be present with the value     *)
(* undefined.  Times are kept in one unit throughout (the code divides a   *)
(* millisecond difference by 1000 and compares against seconds; here the   *)
(* remaining time is held in the unit of the timestamps, which is the same *)
(* comparison and the same subtraction scaled by 1000).                    *)
(***************************************************************************)
EXTENDS Integers, Sequences, FiniteSets, TLC

Files == 1..8
Ranks == 1..8
Squares == Files \X Ranks

Abs(x) == IF x < 0 THEN -x ELSE x
Sgn(x) == IF x < 0 THEN -1 ELSE IF x > 0 THEN 1 ELSE 0
Max(x, y) == IF x < y THEN y ELSE x

Other(c) == IF c = "w" THEN "b" ELSE "w"

NoPiece == [type |-> "-", color |-> "-"]
Piece(t, c) == [type |-> t, color |-> c]

\* Truthiness of an optional number: undefined and 0 are falsy.
TruthyNum(x) == x # <<>> /\ x[1] # 0
\* Truthiness of an optional non-empty string (a piece uid such as "0", a
\* piece symbol, a completion flag): only undefined is falsy.
TruthyStr(x) == x # <<>>

(***************************************************************************)
(* The rules engine (chess.js).                                            *)
(***************************************************************************)
BackRank == <<"r", "n", "b", "q", "k", "b", "n", "r">>

InitialBoard ==
    [sq \in Squares |->
        CASE sq[2] = 1 -> Piece(BackRank[sq[1]], "w")
          [] sq[2] = 2 -> Piece("p", "w")
          [] sq[2] = 7 -> Piece("p", "b")
          [] sq[2] = 8 -> Piece(BackRank[sq[1]], "b")
          [] OTHER -> NoPiece]

InitialPosition ==
    [board |-> InitialBoard,
     turn |-> "w",
     castling |-> [w |-> [k |-> TRUE, q |-> TRUE], b |-> [k |-> TRUE, q |-> TRUE]],
     ep |-> <<>>,
     half |-> 0]

\* new Chess()
NewChess == [pos |-> InitialPosition, history |-> <<>>]

Forward(c) == IF c = "w" THEN 1 ELSE -1
StartRank(c) == IF c = "w" THEN 2 ELSE 7
LastRank(c) == IF c = "w" THEN 8 ELSE 1
HomeRank(c) == IF c = "w" THEN 1 ELSE 8

PathClear(board, from, to) ==
    LET df == to[1] - from[1]
        dr == to[2] - from[2]
        n == Max(Abs(df), Abs(dr))
    IN \A i \in 1..(n - 1) : board[<<from[1] + i * Sgn(df), from[2] + i * Sgn(dr)>>] = NoPiece

\* A rook, bishop or queen moves along the line (df, dr).
OnLine(type, df, dr) ==
    /\ df # 0 \/ dr # 0
    /\ \/ type \in {"r", "q"} /\ (df = 0 \/ dr = 0)
       \/ type \in {"b", "q"} /\ Abs(df) = Abs(dr)

\* The piece on `from` attacks `to` (pins and the colour on `to` not considered).
Attacks(board, from, to) ==
    LET p == board[from]
        df == to[1] - from[1]
        dr == to[2] - from[2]
    IN CASE p.type = "p" -> Abs(df) = 1 /\ dr = Forward(p.color)
         [] p.type = "n" -> {Abs(df), Abs(dr)} = {1, 2}
         [] p.type = "k" -> Max(Abs(df), Abs(dr)) = 1
         [] p.type \in {"r", "b", "q"} -> OnLine(p.type, df, dr) /\ PathClear(board, from, to)
         [] OTHER -> FALSE

Attacked(board, sq, by) ==
    \E s \in Squares : board[s].color = by /\ Attacks(board, s, sq)

KingSquare(board, c) == CHOOSE s \in Squares : board[s] = Piece("k", c)

InCheck(board, c) == Attacked(board, KingSquare(board, c), Other(c))

\* A Move object of chess.js, with the fields the reducer reads.
MkMove(c, from, to, piece, captured, promotion, flags) ==
    [color |-> c, from |-> from, to |-> to, piece |-> piece,
     captured |-> captured, promotion |-> promotion, flags |-> flags]

PawnMoves(pos, from, to) ==
    LET c == pos.turn
        board == pos.board
        t == board[to]
        df == to[1] - from[1]
        dr == to[2] - from[2]
        promos == IF to[2] = LastRank(c) THEN {<<"q">>, <<"r">>, <<"b">>, <<"n">>} ELSE {<<>>}
        pflag == IF to[2] = LastRank(c) THEN {"p"} ELSE {}
    IN CASE df = 0 /\ dr = Forward(c) /\ t = NoPiece ->
              {MkMove(c, from, to, "p", <<>>, pr, {"n"} \cup pflag) : pr \in promos}
         [] df = 0 /\ dr = 2 * Forward(c) /\ from[2] = StartRank(c) /\ t = NoPiece
               /\ board[<<from[1], from[2] + Forward(c)>>] = NoPiece ->
              {MkMove(c, from, to, "p", <<>>, <<>>, {"b"})}
         [] Abs(df) = 1 /\ dr = Forward(c) /\ t.color = Other(c) ->
              {MkMove(c, from, to, "p", <<t.type>>, pr, {"c"} \cup pflag) : pr \in promos}
         [] Abs(df) = 1 /\ dr = Forward(c) /\ t = NoPiece /\ pos.ep = <<to>> ->
              {MkMove(c, from, to, "p", <<"p">>, <<>>, {"e"})}
         [] OTHER -> {}

\* Castling: the right is still held, the squares between king and rook are
\* empty, and the king's square, the one it crosses and the one it lands on
\* are not attacked.
CastleMoves(pos, from, to) ==
    LET c == pos.turn
        r == HomeRank(c)
        side == IF to[1] = 7 THEN "k" ELSE "q"
        between == IF to[1] = 7 THEN {6, 7} ELSE {2, 3, 4}
        crossed == IF to[1] = 7 THEN {5, 6, 7} ELSE {3, 4, 5}
    IN IF /\ from = <<5, r>>
          /\ to \in {<<7, r>>, <<3, r>>}
          /\ pos.board[from] = Piece("k", c)
          /\ pos.castling[c][side]
          /\ \A f \in between : pos.board[<<f, r>>] = NoPiece
          /\ \A f \in crossed : ~Attacked(pos.board, <<f, r>>, Other(c))
       THEN {MkMove(c, from, to, "k", <<>>, <<>>, {side})}
       ELSE {}

PseudoMoves(pos, from, to) ==
    LET c == pos.turn
        p == pos.board[from]
        t == pos.board[to]
    IN IF p.color # c \/ t.color = c THEN {}
       ELSE IF p.type = "p" THEN PawnMoves(pos, from, to)
       ELSE (IF Attacks(pos.board, from, to)
             THEN {MkMove(c, from, to, p.type, IF t = NoPiece THEN <<>> ELSE <<t.type>>,
                          <<>>, IF t = NoPiece THEN {"n"} ELSE {"c"})}
             ELSE {})
            \cup (IF p.type = "k" THEN CastleMoves(pos, from, to) ELSE {})

\* The board after the move.
MoveBoard(board, m) ==
    LET r == m.from[2]
        placed == IF m.promotion # <<>> THEN Piece(m.promotion[1], m.color)
                  ELSE board[m.from]
        b1 == [board EXCEPT ![m.from] = NoPiece, ![m.to] = placed]
    IN IF "e" \in m.flags THEN [b1 EXCEPT ![<<m.to[1], m.from[2]>>] = NoPiece]
       ELSE IF "k" \in m.flags
            THEN [b1 EXCEPT ![<<8, r>>] = NoPiece, ![<<6, r>>] = Piece("r", m.color)]
       ELSE IF "q" \in m.flags
            THEN [b1 EXCEPT ![<<1, r>>] = NoPiece, ![<<4, r>>] = Piece("r", m.color)]
       ELSE b1

MoveCastling(castling, m) ==
    LET us == m.color
        them == Other(us)
        c1 == IF m.piece = "k"
              THEN [castling EXCEPT ![us] = [k |-> FALSE, q |-> FALSE]]
              ELSE castling
        c2 == IF m.from = <<8, HomeRank(us)>> THEN [c1 EXCEPT ![us].k = FALSE]
              ELSE IF m.from = <<1, HomeRank(us)>> THEN [c1 EXCEPT ![us].q = FALSE]
              ELSE c1
    IN IF m.to = <<8, HomeRank(them)>> THEN [c2 EXCEPT ![them].k = FALSE]
       ELSE IF m.to = <<1, HomeRank(them)>> THEN [c2 EXCEPT ![them].q = FALSE]
       ELSE c2

MovePosition(pos, m) ==
    [board |-> MoveBoard(pos.board, m),
     turn |-> Other(pos.turn),
     castling |-> MoveCastling(pos.castling, m),
     ep |-> IF "b" \in m.flags THEN <<(<<m.from[1], m.from[2] + Forward(m.color)>>)>> ELSE <<>>,
     half |-> IF m.piece = "p" \/ m.captured # <<>> THEN 0 ELSE pos.half + 1]

\* The legal moves from `from` to `to` (several only for a promotion).
LegalMoves(pos, from, to) ==
    {m \in PseudoMoves(pos, from, to) : ~InCheck(MoveBoard(pos.board, m), pos.turn)}

HasLegalMove(pos) ==
    \E from \in Squares :
        /\ pos.board[from].color = pos.turn
        /\ \E to \in Squares : LegalMoves(pos, from, to) # {}

\* chess.move({from, to, promotion}): the first legal move with these squares
\* whose promotion, if it has one, is the one asked for; throws when none.
ChessMoveFound(chess, from, to, promotion) ==
    {m \in LegalMoves(chess.pos, from, to) : m.promotion = <<>> \/ m.promotion = promotion}

ChessMoveOk(chess, from, to, promotion) == ChessMoveFound(chess, from, to, promotion) # {}

\* The Move object chess.move returns.
ChessMoveResult(chess, from, to, promotion) ==
    CHOOSE m \in ChessMoveFound(chess, from, to, promotion) : TRUE

\* The engine after chess.move made the move m.
ChessMove(chess, m) ==
    [pos |-> MovePosition(chess.pos, m),
     history |-> Append(chess.history, [move |-> m, pos |-> chess.pos])]

\* chess.undo(): null (here <<>>) when there is no move to take back.
ChessUndoResult(chess) ==
    IF chess.history = <<>> THEN <<>> ELSE <<chess.history[Len(chess.history)].move>>

ChessUndo(chess) ==
    IF chess.history = <<>> THEN chess
    ELSE [pos |-> chess.history[Len(chess.history)].pos,
          history |-> SubSeq(chess.history, 1, Len(chess.history) - 1)]

ChessTurn(chess) == chess.pos.turn

IsCheck(chess) == InCheck(chess.pos.board, chess.pos.turn)

IsCheckmate(chess) == IsCheck(chess) /\ ~HasLegalMove(chess.pos)

IsStalemate(chess) == ~IsCheck(chess) /\ ~HasLegalMove(chess.pos)

SquareColor(sq) == (sq[1] + sq[2]) % 2

IsInsufficientMaterial(chess) ==
    LET board == chess.pos.board
        occupied == {s \in Squares : board[s] # NoPiece}
        bishops == {s \in occupied : board[s].type = "b"}
        knights == {s \in occupied : board[s].type = "n"}
        n == Cardinality(occupied)
    IN \/ n = 2
       \/ n = 3 /\ Cardinality(bishops) + Cardinality(knights) = 1
       \/ n = Cardinality(bishops) + 2
          /\ \A s1, s2 \in bishops : SquareColor(s1) = SquareColor(s2)

\* The key chess.js counts positions by: placement, side to move, castling
\* rights and en-passant square.
PositionKey(pos) == [board |-> pos.board, turn |-> pos.turn,
                     castling |-> pos.castling, ep |-> pos.ep]

IsThreefoldRepetition(chess) ==
    LET seen == {i \in 1..Len(chess.history) :
                    PositionKey(chess.history[i].pos) = PositionKey(chess.pos)}
    IN Cardinality(seen) + 1 >= 3

IsDraw(chess) ==
    \/ chess.pos.half >= 100
    \/ IsStalemate(chess)
    \/ IsInsufficientMaterial(chess)
    \/ IsThreefoldRepetition(chess)

(***************************************************************************)
(* JavaScript objects used as maps.                                        *)
(***************************************************************************)
\* o[k]: undefined for a missing key.
Get(o, k) == IF k \in DOMAIN o THEN o[k] ELSE <<>>
\* o[k] = v
Put(o, k, v) == [x \in DOMAIN o \cup {k} |-> IF x = k THEN v ELSE o[x]]
\* delete o[k]
Delete(o, k) == [x \in DOMAIN o \ {k} |-> o[x]]
\* o[to] = o[from]; delete o[from]
Relocate(o, from, to) == Delete(Put(o, to, Get(o, from)), from)

\* Array.prototype.indexOf, 1-based; 0 when absent (the code's -1).
IndexOf(seq, v) ==
    IF \E i \in 1..Len(seq) : seq[i] = v
    THEN CHOOSE i \in 1..Len(seq) : seq[i] = v /\ \A j \in 1..(i - 1) : seq[j] # v
    ELSE 0

\* seq.filter((_, i) => i !== index)
RemoveAt(seq, index) ==
    IF index \in 1..Len(seq)
    THEN SubSeq(seq, 1, index - 1) \o SubSeq(seq, index + 1, Len(seq))
    ELSE seq

\* The seq without its last element (pop on a non-empty array).
Front(seq) == SubSeq(seq, 1, Len(seq) - 1)
Last(seq) == seq[Len(seq)]

(***************************************************************************)
(* The reducer's helpers.                                                  *)
(***************************************************************************)
\* The index of a square in chess.board().flat(): rank 8 first, file a first.
FlatIndex(sq) == (8 - sq[2]) * 8 + (sq[1] - 1)

\* getBoard: the 8x8 projection, row 1 being rank 8; null is <<>>.  Piece
\* uids are the strings `${i}`; they are kept as the number i.
getBoard(chess, pieceUids) ==
    [row \in 1..8 |->
        [col \in 1..8 |->
            LET sq == <<col, 9 - row>>
                value == chess.pos.board[sq]
            IN IF value # NoPiece
               THEN <<[type |-> value.type, team |-> value.color, uid |-> Get(pieceUids, sq)]>>
               ELSE <<>>]]

\* getCompleteFlag: `if (result.length === 0) return undefined`.
NonEmptyOrUndefined(result) == IF Len(result) = 0 THEN <<>> ELSE <<result>>

\* getCompleteFlag: the tags in the order t, c, d, m, r; undefined when empty.
getCompleteFlag(chess, outOfTime) ==
    NonEmptyOrUndefined((IF outOfTime THEN <<"t">> ELSE <<>>)
                        \o (IF IsCheckmate(chess) THEN <<"c">> ELSE <<>>)
                        \o (IF IsDraw(chess) THEN <<"d">> ELSE <<>>)
                        \o (IF IsInsufficientMaterial(chess) THEN <<"m">> ELSE <<>>)
                        \o (IF IsThreefoldRepetition(chess) THEN <<"r">> ELSE <<>>))

\* `if (state.complete)`: undefined and the empty string are falsy.
IsComplete(state) == state.complete # <<>> /\ state.complete[1] # <<>>

StartFen == "rnbqkbnr/pppppppp/8/8/8/8/PPPPPPPP/RNBQKBNR w KQkq - 0 1"

\* createChessState: the uid of every piece of the starting position.
InitialUids ==
    [sq \in {s \in Squares : NewChess.pos.board[s] # NoPiece} |-> <<FlatIndex(sq)>>]

\* createChessState(length, players).  The remaining time is length * 60
\* seconds, held here in milliseconds.
createChessState(length, players) ==
    [board |-> getBoard(NewChess, InitialUids),
     timers |-> [w |-> [set |-> <<>>, time |-> length * 60 * 1000],
                 b |-> [set |-> <<>>, time |-> length * 60 * 1000]],
     moves |-> <<>>,
     captured |-> [w |-> <<>>, b |-> <<>>],
     turn |-> "w",
     check |-> [w |-> FALSE, b |-> FALSE],
     fen |-> StartFen,
     complete |-> <<>>,
     redoStack |-> <<>>,
     pieceUids |-> InitialUids,
     pieceUidTracker |-> <<>>,
     paused |-> FALSE,
     players |-> players]

(***************************************************************************)
(* chessReducer, one operator per case.  The cases that take the engine    *)
(* handle and mutate it return the pair [state, chess].                    *)
(***************************************************************************)
\* CheckTimers with the expired clock left at what the subtraction gives.
CheckTimersUnclamped(state, chess, time) ==
    LET running == IF TruthyNum(state.timers.w.set) THEN state.timers.w ELSE state.timers.b
    IN IF ~TruthyNum(running.set) THEN state
       ELSE IF running.time - (time - running.set[1]) <= 0
       THEN [state EXCEPT
                !.complete = getCompleteFlag(chess, TRUE),
                !.timers = [w |-> [set |-> <<>>,
                                   time |-> IF TruthyNum(state.timers.w.set)
                                            THEN running.time - (time - running.set[1])
                                            ELSE state.timers.w.time],
                            b |-> [set |-> <<>>,
                                   time |-> IF TruthyNum(state.timers.b.set)
                                            THEN running.time - (time - running.set[1])
                                            ELSE state.timers.b.time]]]
       ELSE state

\* CheckTimers that ends the game as soon as any time has elapsed.
CheckTimersEager(state, chess, time) ==
    LET running == IF TruthyNum(state.timers.w.set) THEN state.timers.w ELSE state.timers.b
    IN IF ~TruthyNum(running.set) THEN state
       ELSE IF time - running.set[1] > 0
       THEN [state EXCEPT
                !.complete = getCompleteFlag(chess, TRUE),
                !.timers = [w |-> [set |-> <<>>,
                                   time |-> IF TruthyNum(state.timers.w.set) THEN 0
                                            ELSE state.timers.w.time],
                            b |-> [set |-> <<>>,
                                   time |-> IF TruthyNum(state.timers.b.set) THEN 0
                                            ELSE state.timers.b.time]]]
       ELSE state

\* case 'checkTimers'
CheckTimers(state, chess, time) ==
    LET running == IF TruthyNum(state.timers.w.set) THEN state.timers.w ELSE state.timers.b
    IN IF ~TruthyNum(running.set) THEN state
       ELSE IF running.time - (time - running.set[1]) <= 0
       THEN [state EXCEPT
                !.complete = getCompleteFlag(chess, TRUE),
                !.timers = [w |-> [set |-> <<>>,
                                   time |-> IF TruthyNum(state.timers.w.set) THEN 0
                                            ELSE state.timers.w.time],
                            b |-> [set |-> <<>>,
                                   time |-> IF TruthyNum(state.timers.b.set) THEN 0
                                            ELSE state.timers.b.time]]]
       ELSE state

\* SwitchTimers with the stopped side's timestamp left in place.
SwitchTimersKeepSet(timers, turn, time) ==
    LET w == timers.w
        b == timers.b
    IN IF turn = "b"
       THEN [b |-> [b EXCEPT !.set = <<time>>],
             w |-> [set |-> w.set,
                    time |-> IF TruthyNum(w.set) THEN w.time - (time - w.set[1]) ELSE w.time]]
       ELSE [w |-> [w EXCEPT !.set = <<time>>],
             b |-> [set |-> b.set,
                    time |-> IF TruthyNum(b.set) THEN b.time - (time - b.set[1]) ELSE b.time]]

\* case 'endMove': the timer switch
SwitchTimers(timers, turn, time) ==
    LET w == timers.w
        b == timers.b
    IN IF turn = "b"
       THEN [b |-> [b EXCEPT !.set = <<time>>],
             w |-> [set |-> <<>>,
                    time |-> IF TruthyNum(w.set) THEN w.time - (time - w.set[1]) ELSE w.time]]
       ELSE [w |-> [w EXCEPT !.set = <<time>>],
             b |-> [set |-> <<>>,
                    time |-> IF TruthyNum(b.set) THEN b.time - (time - b.set[1]) ELSE b.time]]

\* case 'endMove'
EndMove(state, chess, time) ==
    [state EXCEPT
        !.timers = SwitchTimers(state.timers, ChessTurn(chess), time),
        !.turn = ChessTurn(chess),
        !.board = getBoard(chess, state.pieceUids),
        !.check = [[w |-> FALSE, b |-> FALSE] EXCEPT ![ChessTurn(chess)] = IsCheck(chess)],
        !.complete = getCompleteFlag(chess, FALSE)]

\* ClearRedo with the reset left out: the redo stack survives a Move.
ClearRedoSkipped(state) == state

\* case 'move': `if (state.redoStack) state.redoStack = []` (an array is
\* always truthy).
ClearRedo(state) == [state EXCEPT !.redoStack = <<>>]

\* TrackMove with the rook's uid left behind when castling kingside.
TrackMoveKingOnly(pieceUids, move) ==
    IF move.captured # <<>> \/ "e" \in move.flags
    THEN [tracked |-> [taken |-> Get(pieceUids, move.to)],
          uids |-> Relocate(pieceUids, move.from, move.to)]
    ELSE IF "q" \in move.flags
    THEN [tracked |-> [taken |-> <<>>],
          uids |-> Relocate(Relocate(pieceUids, move.from, move.to),
                            <<1, move.from[2]>>, <<4, move.from[2]>>)]
    ELSE [tracked |-> [taken |-> <<>>],
          uids |-> Relocate(pieceUids, move.from, move.to)]

\* case 'move': the uid bookkeeping of an accepted move; [uids, tracked].
TrackMove(pieceUids, move) ==
    IF move.captured # <<>> \/ "e" \in move.flags
    THEN [tracked |-> [taken |-> Get(pieceUids, move.to)],
          uids |-> Relocate(pieceUids, move.from, move.to)]
    ELSE IF "k" \in move.flags
    THEN [tracked |-> [taken |-> <<>>],
          uids |-> Relocate(Relocate(pieceUids, move.from, move.to),
                            <<8, move.from[2]>>, <<6, move.from[2]>>)]
    ELSE IF "q" \in move.flags
    THEN [tracked |-> [taken |-> <<>>],
          uids |-> Relocate(Relocate(pieceUids, move.from, move.to),
                            <<1, move.from[2]>>, <<4, move.from[2]>>)]
    ELSE [tracked |-> [taken |-> <<>>],
          uids |-> Relocate(pieceUids, move.from, move.to)]

\* case 'move': the state fields written for the accepted move `move`, whose
\* uid bookkeeping is `track`.
RecordMove(state, move, track) ==
    [state EXCEPT
        !.pieceUids = track.uids,
        !.pieceUidTracker = Append(state.pieceUidTracker, track.tracked),
        !.moves = Append(state.moves, move),
        !.captured[move.color] =
            IF move.captured # <<>>
            THEN Append(state.captured[move.color], move.captured[1])
            ELSE state.captured[move.color]]

\* case 'move', once the engine has accepted and returned `move`.
MoveAccepted(state, chess, move, time) ==
    [state |-> EndMove(RecordMove(state, move, TrackMove(state.pieceUids, move)),
                       ChessMove(chess, move), time),
     chess |-> ChessMove(chess, move)]

\* case 'move', from the try block on: a rejected move breaks out.
MoveTried(state, chess, from, to, promotion, time) ==
    IF ~ChessMoveOk(chess, from, to, promotion) THEN [state |-> state, chess |-> chess]
    ELSE MoveAccepted(state, chess, ChessMoveResult(chess, from, to, promotion), time)

\* MoveChecked without the `if (state.complete) break`.
MoveCheckedUnguarded(state, chess, from, to, promotion, time) ==
    MoveTried(ClearRedo(state), chess, from, to, promotion, time)

\* case 'move', after the time check.
MoveChecked(state, chess, from, to, promotion, time) ==
    IF IsComplete(state) THEN [state |-> state, chess |-> chess]
    ELSE MoveTried(ClearRedo(state), chess, from, to, promotion, time)

\* case 'move'
Move(state, chess, from, to, promotion, time) ==
    MoveChecked(CheckTimers(state, chess, time), chess, from, to, promotion, time)

\* case 'undo': the reversal of the uid bookkeeping.  `update` is the popped
\* tracker entry, <<>> when the tracker was empty.
UntrackMove(pieceUids, move, update) ==
    IF move.captured # <<>> \/ "e" \in move.flags
    THEN IF update # <<>> /\ TruthyStr(update[1].taken)
         THEN Put(Put(pieceUids, move.from, Get(pieceUids, move.to)), move.to, update[1].taken)
         ELSE Delete(Put(pieceUids, move.from, Get(pieceUids, move.to)), move.to)
    ELSE IF "k" \in move.flags
    THEN Relocate(Relocate(pieceUids, move.to, move.from),
                  <<6, move.from[2]>>, <<8, move.from[2]>>)
    ELSE IF "q" \in move.flags
    THEN Relocate(Relocate(pieceUids, move.to, move.from),
                  <<4, move.from[2]>>, <<1, move.from[2]>>)
    ELSE Relocate(pieceUids, move.to, move.from)

\* case 'undo': the removal from the mover's captured list.
Uncapture(captured, move) ==
    IF move.captured # <<>>
    THEN [captured EXCEPT ![move.color] =
              RemoveAt(captured[move.color], IndexOf(captured[move.color], move.captured[1]))]
    ELSE captured

\* case 'undo': state.pieceUidTracker.pop(), undefined on an empty array.
PopTracker(tracker) == IF tracker = <<>> THEN <<>> ELSE <<Last(tracker)>>

\* RecordUndo with the tracker entry left on the stack.
RecordUndoKeepsTracker(state, move) ==
    [state EXCEPT
        !.moves = Front(state.moves),
        !.pieceUids = UntrackMove(state.pieceUids, move, PopTracker(state.pieceUidTracker)),
        !.captured = Uncapture(state.captured, move),
        !.redoStack = Append(state.redoStack, move)]

\* case 'undo': the state fields written for the undone move.
RecordUndo(state, move) ==
    [state EXCEPT
        !.moves = Front(state.moves),
        !.pieceUidTracker = Front(state.pieceUidTracker),
        !.pieceUids = UntrackMove(state.pieceUids, move, PopTracker(state.pieceUidTracker)),
        !.captured = Uncapture(state.captured, move),
        !.redoStack = Append(state.redoStack, move)]

\* UndoChecked that ends the move even when the engine had nothing to undo.
UndoCheckedEndsMove(state, chess, time) ==
    IF IsComplete(state) THEN [state |-> state, chess |-> chess]
    ELSE IF ChessUndoResult(chess) = <<>>
    THEN [state |-> EndMove(state, ChessUndo(chess), time), chess |-> ChessUndo(chess)]
    ELSE [state |-> EndMove(RecordUndo(state, ChessUndoResult(chess)[1]), ChessUndo(chess), time),
          chess |-> ChessUndo(chess)]

\* case 'undo', after the time check.
UndoChecked(state, chess, time) ==
    IF IsComplete(state) THEN [state |-> state, chess |-> chess]
    ELSE IF ChessUndoResult(chess) = <<>> THEN [state |-> state, chess |-> ChessUndo(chess)]
    ELSE [state |-> EndMove(RecordUndo(state, ChessUndoResult(chess)[1]), ChessUndo(chess), time),
          chess |-> ChessUndo(chess)]

\* case 'undo'
Undo(state, chess, time) == UndoChecked(CheckTimers(state, chess, time), chess, time)

\* case 'redo': `state.redoStack = redo` on the state the inner 'move' returned.
RestoreRedo(result, redo) ==
    [state |-> [result.state EXCEPT !.redoStack = redo], chess |-> result.chess]

\* case 'redo', replaying the popped `move` with `redo` left on the stack.
Replay(state, chess, move, redo, time) ==
    RestoreRedo(Move([state EXCEPT !.redoStack = redo], chess,
                     move.from, move.to, move.promotion, time),
                redo)

\* case 'redo', after the time check.
RedoChecked(state, chess, time) ==
    IF IsComplete(state) THEN [state |-> state, chess |-> chess]
    ELSE IF state.redoStack = <<>> THEN [state |-> state, chess |-> chess]
    ELSE Replay(state, chess, Last(state.redoStack), Front(state.redoStack), time)

\* case 'redo'
Redo(state, chess, time) == RedoChecked(CheckTimers(state, chess, time), chess, time)

\* case 'pause'
Pause(state) == state

(***************************************************************************)
(* The callers of the reducer (ChessProvider's MakeMove, Promote,          *)
(* UndoMove, RedoMove, Pause and OutOfTime) and the wall clock they read.  *)
(* A scenario fixes which moves the players try and at which instants the  *)
(* clock is read; every game starts from createChessState and new Chess(). *)
(***************************************************************************)
GameLength == 1
MaxTicks == 4

\* Half of one side's allotment, in milliseconds.
HalfLength == GameLength * 30 * 1000

In(f1, r1, f2, r2) == [from |-> <<f1, r1>>, to |-> <<f2, r2>>, promotion |-> <<>>]
Promo(f1, r1, f2, r2, p) == [from |-> <<f1, r1>>, to |-> <<f2, r2>>, promotion |-> <<p>>]

\* 1.e4 Nf6 2.e5 d5 3.exd6 (en passant) Nd5, and 1.e4 d5 2.exd5 Nc6 3.dxc6
\* Nf6 4.cxb7 .. 5.bxa8=Q: captures of a pawn, a knight, a pawn and a rook.
CaptureInputs ==
    {In(5, 2, 5, 4), In(5, 4, 5, 5), In(5, 5, 4, 6), In(5, 4, 4, 5), In(4, 5, 3, 6),
     In(3, 6, 2, 7), In(2, 7, 1, 8), Promo(2, 7, 1, 8, "q"),
     In(7, 8, 6, 6), In(4, 7, 4, 5), In(6, 6, 4, 5), In(2, 8, 3, 6)}

\* White castles kingside (Nf3, e4, Be2, O-O, then Kh1), Black queenside
\* (d5, Bf5, Nc6, Qd7, O-O-O).
CastleKInputs ==
    {In(7, 1, 6, 3), In(5, 2, 5, 4), In(6, 1, 5, 2), In(5, 1, 7, 1), In(7, 1, 8, 1),
     In(4, 7, 4, 5), In(3, 8, 6, 5), In(2, 8, 3, 6), In(4, 8, 4, 7), In(5, 8, 3, 8)}

\* White castles queenside (d4, Bf4, Nc3, Qd2, O-O-O), Black kingside (Nf6,
\* e6, Be7, O-O).
CastleQInputs ==
    {In(4, 2, 4, 4), In(3, 1, 6, 4), In(2, 1, 3, 3), In(4, 1, 4, 2), In(5, 1, 3, 1),
     In(7, 8, 6, 6), In(5, 7, 5, 6), In(6, 8, 5, 7), In(5, 8, 7, 8)}

\* 1.f3 e5 2.g4 Qh4 mate, with the clock read again long after the game.
MateInputs == {In(6, 2, 6, 3), In(5, 7, 5, 5), In(7, 2, 7, 4), In(4, 8, 8, 4)}

\* The knights go out and back until the starting position has occurred
\* three times.
RepetitionInputs == {In(7, 1, 6, 3), In(6, 3, 7, 1), In(7, 8, 6, 6), In(6, 6, 7, 8)}

\* 1.e4 e5 2.Nf3 Nc6 with the clock read at multiples of half the allotment.
ClockInputs == {In(5, 2, 5, 4), In(5, 7, 5, 5), In(7, 1, 6, 3), In(2, 8, 3, 6)}

Scenarios ==
    {[inputs |-> CaptureInputs, clock |-> {HalfLength}],
     [inputs |-> CastleKInputs, clock |-> {HalfLength}],
     [inputs |-> CastleQInputs, clock |-> {HalfLength}],
     [inputs |-> MateInputs, clock |-> {HalfLength, MaxTicks * HalfLength}],
     [inputs |-> RepetitionInputs, clock |-> {HalfLength}],
     [inputs |-> ClockInputs, clock |-> {k * HalfLength : k \in 0..MaxTicks}]}

InitialPlayers == [w |-> [name |-> "WHITE", type |-> "local"],
                   b |-> [name |-> "BLACK", type |-> "local"]]

\* The players of the state the provider is constructed with.
LoadingPlayers == [w |-> [name |-> "loading", type |-> "local"],
                   b |-> [name |-> "loading", type |-> "local"]]

\* StartNewGame: the players of a game started with `config`.
NewGamePlayers(config) ==
    [w |-> [name |-> "WHITE", type |-> config.player_white],
     b |-> [name |-> IF config.player_black = "bot" THEN "BOT" ELSE "BLACK",
            type |-> config.player_black]]

\* The configuration of a game between two people.
LocalConfig == [player_white |-> "local", player_black |-> "local"]

\* The configurations a game against the automated opponent is started with.
BotConfigs == {[player_white |-> "local", player_black |-> "bot"],
               [player_white |-> "bot", player_black |-> "local"]}

\* 1.e4 or 1.d4 answered by e5 or d5, then the other pawns: what the players
\* try and what the automated opponent's service answers.
BotInputs == {In(5, 2, 5, 4), In(4, 2, 4, 4), In(5, 7, 5, 5), In(4, 7, 4, 5)}

\* A response of the service with neither an error nor squares.
NoMoveResponse == [from |-> <<>>, to |-> <<>>, promotion |-> <<>>]

BotScenario == [inputs |-> BotInputs, clock |-> {HalfLength, MaxTicks * HalfLength}]

\* state and chess are the provider's state and stateRef.current; config is
\* configRef.current (<<>> while undefined); requests are the getAIMove calls
\* whose promise has not settled, each with the fen it was sent; now is the
\* clock; scenario fixes what the environment may do.
VARIABLES state, chess, config, isAIThinking, requests, now, scenario

vars == <<state, chess, config, isAIThinking, requests, now, scenario>>

\* The provider's values as one record.
Provider ==
    [state |-> state, chess |-> chess, config |-> config,
     isAIThinking |-> isAIThinking, requests |-> requests]

\* The effect's dependency list.
Deps(st, thinking) == <<st.turn, st.complete, thinking>>

\* The effect: thisPlayer.
ThisPlayer(cfg, turn) ==
    IF cfg = <<>> THEN <<>>
    ELSE IF turn = "b" THEN <<cfg[1].player_black>> ELSE <<cfg[1].player_white>>

\* Asks without the test of isAIThinking.
AsksWhileThinking(st, cfg, thinking) ==
    /\ ThisPlayer(cfg, st.turn) = <<"bot">>
    /\ Len(st.redoStack) = 0
    /\ ~IsComplete(st)

\* The effect: the condition under which it calls getAIMove.
Asks(st, cfg, thinking) ==
    /\ ThisPlayer(cfg, st.turn) = <<"bot">>
    /\ Len(st.redoStack) = 0
    /\ ~thinking
    /\ ~IsComplete(st)

\* The effect, run after a render whose dependencies differ from `deps`, those
\* of the render before: setIsAIThinking(true) and getAIMove(fen).
useEffect(deps, p) ==
    IF deps # Deps(p.state, p.isAIThinking) /\ Asks(p.state, p.config, p.isAIThinking)
    THEN [p EXCEPT !.isAIThinking = TRUE,
                   !.requests = Append(p.requests, [fen |-> p.chess.pos])]
    ELSE p

\* The provider after the handler left it as p, rendered, and the effect ran.
Rendered(p) == useEffect(Deps(state, isAIThinking), p)

\* The values p become the provider's.
Render(p) ==
    /\ state' = p.state
    /\ chess' = p.chess
    /\ config' = p.config
    /\ isAIThinking' = p.isAIThinking
    /\ requests' = p.requests
    /\ UNCHANGED <<now, scenario>>

\* setState(oldState => chessReducer(oldState, action)) on the provider p:
\* the reducer's result becomes the state, and the engine handle is the one
\* it mutated.
Reduced(p, result) == [p EXCEPT !.state = result.state, !.chess = result.chess]

Commit(result) == Render(Rendered(Reduced(Provider, result)))

\* StartNewGame
NewGame(p, cfg) ==
    [p EXCEPT !.config = <<cfg>>,
              !.chess = NewChess,
              !.state = createChessState(GameLength, NewGamePlayers(cfg))]

\* getAIMove's promise fulfilled with `response` (no error field): then, finally.
Responded(p, i, response, time) ==
    [(IF response.from # <<>> /\ response.to # <<>>
      THEN Reduced(p, Move(p.state, p.chess, response.from, response.to,
                           response.promotion, time))
      ELSE p)
     EXCEPT !.isAIThinking = FALSE, !.requests = RemoveAt(p.requests, i)]

\* getAIMove's promise fulfilled with an error field (then returns early), or
\* rejected (catch); finally.
Failed(p, i) == [p EXCEPT !.isAIThinking = FALSE, !.requests = RemoveAt(p.requests, i)]

Init ==
    /\ scenario \in Scenarios
    /\ state = createChessState(GameLength, InitialPlayers)
    /\ chess = NewChess
    /\ config = <<LocalConfig>>
    /\ isAIThinking = FALSE
    /\ requests = <<>>
    /\ now \in scenario.clock
    /\ \A t \in scenario.clock : now <= t

\* MakeMove / Promote
MoveAct ==
    \E in \in scenario.inputs : Commit(Move(state, chess, in.from, in.to, in.promotion, now))

\* UndoMove
UndoAct == Commit(Undo(state, chess, now))

\* RedoMove
RedoAct == Commit(Redo(state, chess, now))

\* Pause
PauseAct == Commit([state |-> Pause(state), chess |-> chess])

\* OutOfTime
CheckTimersAct == Commit([state |-> CheckTimers(state, chess, now), chess |-> chess])

\* new Date().getTime() grows between calls.
Tick ==
    /\ \E t \in scenario.clock : t > now /\ now' = t
    /\ UNCHANGED <<state, chess, config, isAIThinking, requests, scenario>>

Next == MoveAct \/ UndoAct \/ RedoAct \/ PauseAct \/ CheckTimersAct \/ Tick

\* A game between two people, from the state StartNewGame leaves.
Spec == Init /\ [][Next]_vars

\* The provider as constructed, before any game is started.
BotInit ==
    /\ scenario = BotScenario
    /\ state = createChessState(GameLength, LoadingPlayers)
    /\ chess = NewChess
    /\ config = <<>>
    /\ isAIThinking = FALSE
    /\ requests = <<>>
    /\ now = HalfLength

\* StartNewGame
StartNewGameAct == \E cfg \in BotConfigs : Render(Rendered(NewGame(Provider, cfg)))

\* What the service may answer to a request sent with `fen`: a move that is
\* legal in that position, or nothing to play.
Answers(fen) ==
    {in \in scenario.inputs :
        ChessMoveOk([pos |-> fen, history |-> <<>>], in.from, in.to, in.promotion)}
    \cup {NoMoveResponse}

\* The service answers a request.
AIMoveResponse ==
    \E i \in DOMAIN requests : \E response \in Answers(requests[i].fen) :
        Render(Rendered(Responded(Provider, i, response, now)))

\* The service answers a request with an error.
AIErrorResponse == \E i \in DOMAIN requests : Render(Rendered(Failed(Provider, i)))

\* The call to the service fails.
AIReject == \E i \in DOMAIN requests : Render(Rendered(Failed(Provider, i)))

BotNext ==
    \/ MoveAct \/ UndoAct \/ RedoAct \/ PauseAct \/ CheckTimersAct \/ Tick
    \/ StartNewGameAct \/ AIMoveResponse \/ AIErrorResponse \/ AIReject

\* Games against the automated opponent.
BotSpec == BotInit /\ [][BotNext]_vars

(***************************************************************************)
(* Definitions the properties are stated with.                             *)
(***************************************************************************)
Range(seq) == {seq[i] : i \in 1..Len(seq)}

Occupied(board) == {sq \in Squares : board[sq] # NoPiece}

\* The clock has not run out at `now`: the time check changes nothing.
ClockHolds == CheckTimers(state, chess, now) = state

Active == ~IsComplete(state) /\ ClockHolds

\* The engine accepts the input in the current position.
Legal(in) == ChessMoveOk(chess, in.from, in.to, in.promotion)
MoveOf(in) == ChessMoveResult(chess, in.from, in.to, in.promotion)

AfterMove(in) == Move(state, chess, in.from, in.to, in.promotion, now)

\* Which piece of the starting position stands on which square, followed
\* through the engine's own moves: the identifier createChessState gave the
\* piece, <<>> on an empty square.
StartIds == [sq \in Squares |-> IF InitialBoard[sq] # NoPiece THEN <<FlatIndex(sq)>> ELSE <<>>]

CarryIds(ids, m) ==
    LET r == m.from[2]
        b1 == [ids EXCEPT ![m.from] = <<>>, ![m.to] = ids[m.from]]
    IN IF "e" \in m.flags THEN [b1 EXCEPT ![<<m.to[1], m.from[2]>>] = <<>>]
       ELSE IF "k" \in m.flags THEN [b1 EXCEPT ![<<8, r>>] = <<>>, ![<<6, r>>] = ids[<<8, r>>]]
       ELSE IF "q" \in m.flags THEN [b1 EXCEPT ![<<1, r>>] = <<>>, ![<<4, r>>] = ids[<<1, r>>]]
       ELSE b1

RECURSIVE IdsAfter(_, _)
IdsAfter(history, n) ==
    IF n = 0 THEN StartIds ELSE CarryIds(IdsAfter(history, n - 1), history[n].move)

TrueIds(engine) == IdsAfter(engine.history, Len(engine.history))

\* The square a captured piece stood on: the destination, or for an en
\* passant capture the square beside the capturing pawn.
CapturedSquare(m) == IF "e" \in m.flags THEN <<m.to[1], m.from[2]>> ELSE m.to

(***************************************************************************)
(* C1.  A Move the engine rejects, in an Active game whose clock has not   *)
(* run out, returns the state with every field as before (and leaves the   *)
(* engine alone).                                                          *)
(***************************************************************************)
C1_RejectedMoveChangesNothing ==
    \A in \in scenario.inputs :
        (Active /\ ~Legal(in)) => AfterMove(in) = [state |-> state, chess |-> chess]

(***************************************************************************)
(* C2.  Move(m) followed at once by Undo gives back the Identity Map, the  *)
(* board projection, both captured lists (in order) and the turn.          *)
(***************************************************************************)
C2_MoveUndoRoundTrip ==
    \A in \in scenario.inputs :
        (Active /\ Legal(in) /\ ~IsComplete(AfterMove(in).state)) =>
            LET m == AfterMove(in)
                u == Undo(m.state, m.chess, now)
            IN /\ u.state.pieceUids = state.pieceUids
               /\ u.state.board = state.board
               /\ u.state.captured = state.captured
               /\ u.state.turn = state.turn

(***************************************************************************)
(* C3.  In an Active state with moves played, Undo followed at once by     *)
(* Redo gives back the history, the Identity Map, the board projection,    *)
(* the captured lists (in order), the turn and the check flags, and the    *)
(* redo stack is the one before the Undo.                                  *)
(***************************************************************************)
C3_UndoRedoRoundTrip ==
    (Active /\ state.moves # <<>>) =>
        LET u == Undo(state, chess, now)
            r == Redo(u.state, u.chess, now)
        IN /\ r.state.moves = state.moves
           /\ r.state.pieceUids = state.pieceUids
           /\ r.state.board = state.board
           /\ r.state.captured = state.captured
           /\ r.state.turn = state.turn
           /\ r.state.check = state.check
           /\ r.state.redoStack = state.redoStack

(***************************************************************************)
(* C4.  An accepted Move leaves the redo stack empty, whatever Undos came  *)
(* before it, and a Redo issued next, at any later time, changes neither   *)
(* the history, the Identity Map, the board, the turn nor the engine.      *)
(***************************************************************************)
C4_MoveClearsRedo ==
    \A in \in scenario.inputs :
        (Active /\ Legal(in)) =>
            LET m == AfterMove(in)
            IN /\ m.state.redoStack = <<>>
               /\ \A t \in scenario.clock :
                    t >= now =>
                        LET r == Redo(m.state, m.chess, t)
                        IN /\ r.state.moves = m.state.moves
                           /\ r.state.pieceUids = m.state.pieceUids
                           /\ r.state.board = m.state.board
                           /\ r.state.turn = m.state.turn
                           /\ r.state.redoStack = <<>>
                           /\ r.chess = m.chess

\* Moves have been undone (the redo stack holds them) and an input is accepted.
C4_Witness ==
    /\ Active
    /\ Len(state.redoStack) >= 2
    /\ \E in \in scenario.inputs :
          /\ Legal(in)
          /\ MoveOf(in) # Last(state.redoStack)
          /\ AfterMove(in).state.redoStack = <<>>
          /\ Len(AfterMove(in).state.moves) = Len(state.moves) + 1

(***************************************************************************)
(* C5.  The squares that are keys of the Identity Map are exactly the      *)
(* squares occupied on the engine's board.                                 *)
(***************************************************************************)
C5_MapKeysAreOccupiedSquares ==
    DOMAIN state.pieceUids = Occupied(chess.pos.board)

(***************************************************************************)
(* C6.  Every piece on the engine's board carries the identifier it was    *)
(* given at game start, and no identifier is on more than one square.      *)
(***************************************************************************)
C6_PiecesKeepTheirIdentifier ==
    /\ \A sq \in Occupied(chess.pos.board) : Get(state.pieceUids, sq) = TrueIds(chess)[sq]
    /\ \A s1, s2 \in DOMAIN state.pieceUids :
          (s1 # s2 /\ state.pieceUids[s1] # <<>>) => state.pieceUids[s1] # state.pieceUids[s2]

(***************************************************************************)
(* C7.  An accepted en-passant capture removes the captured pawn's         *)
(* identifier from the map at the captured pawn's own square, moves the    *)
(* mover's identifier from source to destination and records the captured  *)
(* pawn's identifier as 'taken'.                                           *)
(***************************************************************************)
C7_EnPassantRemovesCapturedPawn ==
    \A in \in scenario.inputs :
        (Active /\ Legal(in) /\ "e" \in MoveOf(in).flags) =>
            LET m == AfterMove(in)
                pawn == CapturedSquare(MoveOf(in))
            IN /\ pawn \notin DOMAIN m.state.pieceUids
               /\ in.from \notin DOMAIN m.state.pieceUids
               /\ Get(m.state.pieceUids, in.to) = Get(state.pieceUids, in.from)
               /\ Last(m.state.pieceUidTracker).taken = Get(state.pieceUids, pawn)

(***************************************************************************)
(* C8.  An accepted capturing Move leaves one identifier fewer in the map  *)
(* and appends the captured type to the mover's captured list; undoing it  *)
(* removes that entry again and puts the captured piece's identifier back  *)
(* on the square the piece returns to.                                     *)
(***************************************************************************)
C8_CaptureBookkeeping ==
    \A in \in scenario.inputs :
        (Active /\ Legal(in) /\ MoveOf(in).captured # <<>>) =>
            LET mv == MoveOf(in)
                m == AfterMove(in)
                u == Undo(m.state, m.chess, now)
            IN /\ Cardinality(DOMAIN m.state.pieceUids) = Cardinality(DOMAIN state.pieceUids) - 1
               /\ m.state.captured[mv.color] = Append(state.captured[mv.color], mv.captured[1])
               /\ m.state.captured[Other(mv.color)] = state.captured[Other(mv.color)]
               /\ ~IsComplete(m.state) =>
                    /\ u.state.captured = state.captured
                    /\ Get(u.state.pieceUids, CapturedSquare(mv)) = TrueIds(chess)[CapturedSquare(mv)]

(***************************************************************************)
(* C9.  An accepted castling Move moves the king's identifier from source  *)
(* to destination and the rook's from the h-file to the f-file (kingside)  *)
(* or from the a-file to the d-file (queenside) of the same rank, leaves   *)
(* every other entry of the map as it was and records no 'taken'; Undo     *)
(* puts the map back.                                                      *)
(***************************************************************************)
C9_CastlingMovesTwoIdentifiers ==
    \A in \in scenario.inputs :
        (Active /\ Legal(in) /\ MoveOf(in).flags \cap {"k", "q"} # {}) =>
            LET mv == MoveOf(in)
                m == AfterMove(in)
                u == Undo(m.state, m.chess, now)
                rank == in.from[2]
                rookFrom == IF "k" \in mv.flags THEN <<8, rank>> ELSE <<1, rank>>
                rookTo == IF "k" \in mv.flags THEN <<6, rank>> ELSE <<4, rank>>
                before == state.pieceUids
                after == m.state.pieceUids
            IN /\ DOMAIN after = (DOMAIN before \ {in.from, rookFrom}) \cup {in.to, rookTo}
               /\ after[in.to] = before[in.from]
               /\ after[rookTo] = before[rookFrom]
               /\ after[in.to] = <<FlatIndex(in.from)>>
               /\ after[rookTo] = <<FlatIndex(rookFrom)>>
               /\ \A sq \in DOMAIN before \ {in.from, rookFrom} : after[sq] = before[sq]
               /\ Last(m.state.pieceUidTracker).taken = <<>>
               /\ ~IsComplete(m.state) => u.state.pieceUids = before

\* A game in which White has castled kingside (and stepped the king on to h1)
\* and Black has then castled queenside: each rook's uid is beside its king.
C9_Witness ==
    /\ \E i \in 1..Len(state.moves) : "k" \in state.moves[i].flags
    /\ "q" \in Last(state.moves).flags
    /\ Get(state.pieceUids, <<8, 1>>) = <<FlatIndex(<<5, 1>>)>>
    /\ Get(state.pieceUids, <<6, 1>>) = <<FlatIndex(<<8, 1>>)>>
    /\ Get(state.pieceUids, <<3, 8>>) = <<FlatIndex(<<5, 8>>)>>
    /\ Get(state.pieceUids, <<4, 8>>) = <<FlatIndex(<<1, 8>>)>>

(***************************************************************************)
(* C10.  In an Active state with a clock running since s (any s, 0         *)
(* included) and r left on it, CheckTimers at a time T with T - s >= r     *)
(* sets a completion flag that contains the out-of-time tag, and after it  *)
(* every Move returns the state and the engine as they were.               *)
(***************************************************************************)
C10_ExpiryCompletesTheGame ==
    \A side \in {"w", "b"} :
        \A t \in scenario.clock :
            LET timer == state.timers[side]
            IN (~IsComplete(state) /\ timer.set # <<>> /\ t >= now /\ t - timer.set[1] >= timer.time) =>
                 LET expired == CheckTimers(state, chess, t)
                 IN /\ IsComplete(expired)
                    /\ "t" \in Range(expired.complete[1])
                    /\ \A in \in scenario.inputs :
                         \A t2 \in scenario.clock :
                            t2 >= t => Move(expired, chess, in.from, in.to, in.promotion, t2)
                                          = [state |-> expired, chess |-> chess]

(***************************************************************************)
(* Definitions the clock properties are stated with.                       *)
(***************************************************************************)
\* The sides whose clock has a started-at timestamp (0 is a timestamp).
Stamped == {c \in {"w", "b"} : state.timers[c].set # <<>>}

\* The readings of the clock from `now` on.
Later == {t \in scenario.clock : t >= now}

(***************************************************************************)
(* C11.  At most one side's clock has a started-at timestamp, and a        *)
(* timestamp that is set belongs to the side the engine says is to move.   *)
(***************************************************************************)
C11_OneClockRunsForTheMover ==
    /\ Cardinality(Stamped) <= 1
    /\ \A c \in Stamped : c = ChessTurn(chess)

\* Black's clock runs after White's second move, White's having run before.
C11_Witness ==
    /\ Len(state.moves) = 3
    /\ Stamped = {"b"}
    /\ state.timers.w.time < GameLength * 60 * 1000

(***************************************************************************)
(* C12.  A Move or an Undo that commits at time t while the clock of side  *)
(* c runs since s (any s, 0 included) takes exactly t - s off c's          *)
(* remaining time and clears c's timestamp, and stamps the new mover's     *)
(* clock with t, leaving its remaining time alone.                         *)
(***************************************************************************)
C12_SwitchChargesElapsedTime ==
    \A c \in Stamped : \A t \in Later :
        LET s == state.timers[c].set[1]
            charged(r) ==
                r.chess # chess =>
                    /\ r.state.timers[c].time = state.timers[c].time - (t - s)
                    /\ r.state.timers[c].set = <<>>
                    /\ r.state.timers[Other(c)].set = <<t>>
                    /\ r.state.timers[Other(c)].time = state.timers[Other(c)].time
        IN /\ \A in \in scenario.inputs :
                charged(Move(state, chess, in.from, in.to, in.promotion, t))
           /\ charged(Undo(state, chess, t))

(***************************************************************************)
(* C15.  Once the completion flag is set, a Move, an Undo or a Redo at any *)
(* later time leaves the engine, the identity map, the forward history,    *)
(* the undo records, the redo stack and the captured sets as they are,     *)
(* and the flag stays set, so the same holds after any further actions.    *)
(***************************************************************************)
Frozen(r) ==
    /\ r.chess = chess
    /\ r.state.pieceUids = state.pieceUids
    /\ r.state.moves = state.moves
    /\ r.state.pieceUidTracker = state.pieceUidTracker
    /\ r.state.redoStack = state.redoStack
    /\ r.state.captured = state.captured
    /\ IsComplete(r.state)

C15_CompleteGameIsFrozen ==
    IsComplete(state) =>
        \A t \in Later :
            /\ \A in \in scenario.inputs :
                   Frozen(Move(state, chess, in.from, in.to, in.promotion, t))
            /\ Frozen(Undo(state, chess, t))
            /\ Frozen(Redo(state, chess, t))

\* A game that ended with moves played and a move waiting to be redone.
C15_Witness ==
    /\ IsComplete(state)
    /\ state.moves # <<>>
    /\ state.redoStack # <<>>

(***************************************************************************)
(* C16.  Once the completion flag is set, a time check at any later time   *)
(* (the one CheckTimers makes, which is also the first step of Move, Undo  *)
(* and Redo) changes neither the flag nor either side's remaining time or  *)
(* timestamp.                                                              *)
(***************************************************************************)
C16_TimeCheckInertOnceComplete ==
    IsComplete(state) =>
        \A t \in Later :
            /\ CheckTimers(state, chess, t).complete = state.complete
            /\ CheckTimers(state, chess, t).timers = state.timers

(***************************************************************************)
(* C17.  Each side's stored remaining time is at least zero, in the        *)
(* current state and after a Move, Undo, Redo or CheckTimers at any later  *)
(* time.                                                                   *)
(***************************************************************************)
NonNegative(st) == st.timers.w.time >= 0 /\ st.timers.b.time >= 0

C17_RemainingTimeNeverNegative ==
    /\ NonNegative(state)
    /\ \A t \in Later :
           /\ \A in \in scenario.inputs :
                  NonNegative(Move(state, chess, in.from, in.to, in.promotion, t).state)
           /\ NonNegative(Undo(state, chess, t).state)
           /\ NonNegative(Redo(state, chess, t).state)
           /\ NonNegative(CheckTimers(state, chess, t))

\* A running clock read later than its remaining time allows, in a game
\* that has not been ended yet.
C17_Witness ==
    /\ ~IsComplete(state)
    /\ \E c \in Stamped :
           /\ state.timers[c].set[1] # 0
           /\ state.timers[c].time - (now - state.timers[c].set[1]) < 0

(***************************************************************************)
(* C18.  There are as many identity undo records as moves in the forward   *)
(* history.                                                                *)
(***************************************************************************)
C18_OneUndoRecordPerMove ==
    Len(state.pieceUidTracker) = Len(state.moves)

\* Moves have been played and one of them undone.
C18_Witness ==
    /\ Len(state.moves) >= 2
    /\ Len(state.pieceUidTracker) >= 2
    /\ state.redoStack # <<>>

(***************************************************************************)
(* C19.  CheckTimers at a time when no clock runs, or when the running     *)
(* side's remaining time less the time elapsed since its timestamp is      *)
(* still positive, returns the state unchanged.                            *)
(***************************************************************************)
C19_TimeCheckBeforeExpiryChangesNothing ==
    \A t \in Later :
        (\A c \in Stamped : state.timers[c].time - (t - state.timers[c].set[1]) > 0) =>
            CheckTimers(state, chess, t) = state

\* A clock that has been running for a while and has time left.
C19_Witness ==
    /\ ~IsComplete(state)
    /\ \E c \in Stamped :
           /\ state.timers[c].set[1] # 0
           /\ now > state.timers[c].set[1]
           /\ state.timers[c].time - (now - state.timers[c].set[1]) > 0

(***************************************************************************)
(* C20.  When the time check changes nothing, an Undo with an empty        *)
(* forward history and a Redo with an empty redo stack return the state    *)
(* unchanged and leave the engine alone, and Pause returns the state       *)
(* unchanged.                                                              *)
(***************************************************************************)
C20_NothingToDoChangesNothing ==
    /\ Pause(state) = state
    /\ \A t \in Later :
           CheckTimers(state, chess, t) = state =>
               /\ state.moves = <<>> =>
                      Undo(state, chess, t) = [state |-> state, chess |-> chess]
               /\ state.redoStack = <<>> =>
                      Redo(state, chess, t) = [state |-> state, chess |-> chess]

\* Every move has been undone, later, with a clock running.
C20_Witness ==
    /\ state.moves = <<>>
    /\ state.redoStack # <<>>
    /\ Stamped # {}
    /\ now > 0
    /\ ~IsComplete(state)

(***************************************************************************)
(* C13.  A response of the automated opponent's service changes the game   *)
(* state only when the game is in the position, with the side to move,     *)
(* that the request was sent for: a response that arrives after the game   *)
(* was completed, after a move, undo or redo changed the position, or      *)
(* after a new game was started, is discarded.                             *)
(***************************************************************************)
C13_StaleResponseIsDiscarded ==
    \A i \in DOMAIN requests :
        \A response \in Answers(requests[i].fen) :
            Responded(Provider, i, response, now).state # state =>
                requests[i].fen = chess.pos

(***************************************************************************)
(* C14.  When a request to the automated opponent's service fails (an      *)
(* error in the response, or a rejected call), the game state and the      *)
(* engine are as before, and once the provider has rendered no request is  *)
(* outstanding: none is issued again for the turn.                         *)
(***************************************************************************)
C14_FailedRequestIsNotRetried ==
    \A i \in DOMAIN requests :
        /\ Rendered(Failed(Provider, i)).state = state
        /\ Rendered(Failed(Provider, i)).chess = chess
        /\ Rendered(Failed(Provider, i)).requests = RemoveAt(requests, i)

(***************************************************************************)
(* C21.  At most one request to the automated opponent's service is        *)
(* outstanding, and whatever handler runs next (a move, an undo, a redo,   *)
(* a time check, a new game, or the settling of the pending request), the  *)
(* effect that follows it sends a request only when the side the engine    *)
(* says is to move is automated, the redo stack is empty, the game is not  *)
(* complete and no request is pending.                                     *)
(***************************************************************************)
\* The provider as each handler that can run now would leave it, before the
\* effect.
Outcomes ==
    {Reduced(Provider, Move(state, chess, in.from, in.to, in.promotion, now)) :
        in \in scenario.inputs}
    \cup {Reduced(Provider, Undo(state, chess, now)),
          Reduced(Provider, Redo(state, chess, now)),
          Reduced(Provider, [state |-> CheckTimers(state, chess, now), chess |-> chess])}
    \cup {NewGame(Provider, cfg) : cfg \in BotConfigs}
    \cup UNION {{Responded(Provider, i, response, now) :
                    response \in Answers(requests[i].fen)} : i \in DOMAIN requests}
    \cup {Failed(Provider, i) : i \in DOMAIN requests}

C21_OneRequestAtATime ==
    /\ Len(requests) <= 1
    /\ \A p \in Outcomes :
           Rendered(p).requests # p.requests =>
               /\ ThisPlayer(p.config, ChessTurn(p.chess)) = <<"bot">>
               /\ p.state.redoStack = <<>>
               /\ ~IsComplete(p.state)
               /\ p.requests = <<>>
               /\ Rendered(p).requests = <<[fen |-> p.chess.pos]>>

\* A request is pending for a position the user has since left by an undo
\* and another move: it is the automated side's turn again, nothing is to
\* be redone and the game goes on.
C21_Witness ==
    /\ Len(requests) = 1
    /\ requests[1].fen # chess.pos
    /\ ThisPlayer(config, ChessTurn(chess)) = <<"bot">>
    /\ state.moves # <<>>
    /\ state.redoStack = <<>>
    /\ ~IsComplete(state)

=============================================================================
